---- MODULE Spec2Model ----
(***************************************************************************)
(* Market-data acquisition pipeline of TraDora: the ordered provider       *)
(* failover of MarketDataService.getMarketData, the open-price enricher,   *)
(* the in-memory quote repository (MemStorage) and the 5-second poll       *)
(* callback and request handlers registered by registerRoutes.             *)
(*                                                                         *)
(* The server is one Node.js process.  A callback runs until it reaches an *)
(* await on something that is not yet settled (here: a network exchange);  *)
(* an await on an already settled promise (every MemStorage method) is     *)
(* resumed in the same microtask checkpoint, before any timer or I/O       *)
(* callback.  `running` is the task whose continuation is on that chain;   *)
(* timer ticks, request handlers and network completions start only when   *)
(* it is 0.                                                                *)
(*                                                                         *)
(* One adapter invocation is one suspension: the per-symbol request loop   *)
(* of an adapter is collapsed into a single exchange whose outcome is the  *)
(* list of symbols that produced a record.                                 *)
(***************************************************************************)
EXTENDS Integers, Sequences, FiniteSets, TLC

VARIABLES
    phase,      \* "boot" before `new MarketDataService()`, "up" after registerRoutes
    env,        \* configuration read from process.env
    token,      \* MarketDataService.angelOneToken
    login,      \* state of the loginByPassword request
    logins,     \* number of loginByPassword requests issued so far
    lateLogins, \* ... of which issued after construction
    task,       \* poll cycles and /api/market-data handlers, by slot
    running,    \* task whose continuation is executing, 0 when the loop is idle
    storage,    \* MemStorage.marketData, in insertion order
    lastRead,   \* ids returned by the most recent storage.getMarketData() of a reader
    rejected,   \* a getMarketData promise was rejected
    caught,     \* a callback's catch block has run (console.error, cycle abandoned)
    crashed,    \* an exception escaped a callback (the process, and its timer, die)
    quotes,     \* MemStorage.marketData with the record fields the enricher reads
    calc        \* the most recent call of a function studied on its own: input and result

\* The variables of the function-level specifications; the pipeline
\* specification leaves them alone.
fvars == <<quotes, calc>>

vars == <<phase, env, token, login, logins, lateLogins, task, running,
          storage, lastRead, rejected, caught, crashed, quotes, calc>>

\* No function call recorded.
NoCalc == [op |-> "none"]

(***************************************************************************)
(* Bounds                                                                  *)
(***************************************************************************)
MaxTasks == 2

Tasks == 1..MaxTasks

(***************************************************************************)
(* Program constants                                                       *)
(***************************************************************************)
Symbols == <<"NIFTY", "BANKNIFTY", "SENSEX">>

dataSources == <<"Angel One", "Yahoo Finance", "Alpha Vantage", "Twelve Data",
                 "Marketstack", "NSE Direct", "Yahoo Quote API", "BSE API">>

Sources == DOMAIN dataSources

NoToken == "null"

(***************************************************************************)
(* Adapters                                                                *)
(***************************************************************************)
\* `enabled:` of a dataSources entry, evaluated when getMarketData is entered.
Enabled(k, tok) == IF dataSources[k] = "Angel One" THEN tok # NoToken ELSE TRUE

\* Adapters whose body is not wrapped in a per-symbol try/catch.
MayThrow(k) == dataSources[k] \in {"Angel One", "Yahoo Quote API"}

\* Adapters that send a credential with their requests, and the environment
\* entry the credential comes from.
Credential(k) ==
    CASE dataSources[k] = "Angel One"     -> "ANGEL_ONE"
      [] dataSources[k] = "Alpha Vantage" -> "ALPHAVANTAGE_API_KEY"
      [] dataSources[k] = "Twelve Data"   -> "TWELVEDATA_API_KEY"
      [] dataSources[k] = "Marketstack"   -> "MARKETSTACK_API_KEY"
      [] OTHER                            -> "none"

RequiresCredentials(k) == Credential(k) # "none"

ApiKeys == {"ALPHAVANTAGE_API_KEY", "TWELVEDATA_API_KEY", "MARKETSTACK_API_KEY"}

\* Deployments considered: no credential configured, and all of them.
Environments == {{}, ApiKeys \cup {"ANGEL_ONE"}}

\* The subsequence of s at the positions in I.
Pick(s, I) ==
    LET F[i \in 0..Len(s)] ==
            IF i = 0 THEN <<>>
            ELSE IF i \in I THEN Append(F[i - 1], s[i]) ELSE F[i - 1]
    IN  F[Len(s)]

\* Positions of the symbol list whose request succeeds in an exchange: the
\* provider is down for every symbol, or up for every symbol.
Shapes(symbols) == {{}, DOMAIN symbols}

\* Symbol lists an adapter can return records for.
Yields(k, symbols) ==
    CASE dataSources[k] = "Yahoo Quote API" ->
            {SubSeq(symbols, 1, Cardinality(I)) : I \in Shapes(symbols)}
      [] dataSources[k] = "BSE API" ->
            {<<>>, SelectSeq(symbols, LAMBDA s : s = "SENSEX")}
      [] OTHER ->
            {Pick(symbols, I) : I \in Shapes(symbols)}

\* Results of one adapter invocation: it throws, or returns records.  The
\* records of one exchange all carry a provider open price ("prov"), or, when
\* a provider that answered for every symbol sent no usable price, open "0".
Outcomes(k, symbols) ==
    (IF MayThrow(k) THEN {[kind |-> "threw", syms |-> <<>>, open |-> "0"]} ELSE {})
    \cup {[kind |-> "ok", syms |-> y, open |-> "prov"] : y \in Yields(k, symbols)}
    \cup {[kind |-> "ok", syms |-> y, open |-> "0"] :
             y \in {z \in Yields(k, symbols) : Len(z) = Len(symbols)}}

Records(k, out) ==
    [i \in DOMAIN out.syms |-> [symbol |-> out.syms[i], src |-> k, open |-> out.open]]

(***************************************************************************)
(* Repository                                                              *)
(***************************************************************************)
\* MemStorage.getMarketData(): every stored record (ids are positions).
GetMarketData(store) == DOMAIN store

\* MemStorage.getLatestMarketData(symbol) found a record.
HasLatest(store, symbol) == \E i \in DOMAIN store : store[i].symbol = symbol

\* MemStorage.saveMarketData: one new record under a fresh id.
SaveMarketData(store, rec) == Append(store, rec)

(***************************************************************************)
(* Series enricher                                                         *)
(***************************************************************************)
\* Variant: a record without a usable open price is dropped, not completed.
enrichDropping(marketData, store) ==
    SelectSeq(marketData, LAMBDA r : r.open # "0")

enrichMarketDataWithOpen(marketData, store) ==
    [i \in DOMAIN marketData |->
        IF marketData[i].open = "0"
        THEN [marketData[i] EXCEPT !.open =
                 IF HasLatest(store, marketData[i].symbol) THEN "prev" ELSE "own"]
        ELSE marketData[i]]

(***************************************************************************)
(* Failover loop of getMarketData                                          *)
(***************************************************************************)
\* Variant: the loop has no `return` on a non-empty result.
LoopNoReturn(out) == "continue"

\* Variant: the loop has no try/catch around `await source.fetch()`.
LoopNoCatch(out) ==
    IF out.kind = "threw" THEN "throw"
    ELSE IF Len(out.syms) > 0 THEN "return"
    ELSE "continue"

\* What the loop does with the outcome of `await source.fetch()`.
LoopControl(out) ==
    IF out.kind = "threw" THEN "continue"
    ELSE IF Len(out.syms) > 0 THEN "return"
    ELSE "continue"

\* The next enabled source after position k, 0 when the list is exhausted.
NextSource(k, tok) ==
    LET later == {j \in Sources : j > k /\ Enabled(j, tok)}
    IN  IF later = {} THEN 0 ELSE CHOOSE j \in later : \A i \in later : j <= i

(***************************************************************************)
(* Tasks                                                                   *)
(***************************************************************************)
IdleTask ==
    [pc |-> "idle", kind |-> "none", tok |-> NoToken, idx |-> 0, invoked |-> <<>>,
     results |-> <<>>, winner |-> 0, raw |-> <<>>, result |-> <<>>,
     batch |-> <<>>, saved |-> 0, wrote |-> {}, snap |-> {}]

DoneTask == [IdleTask EXCEPT !.pc = "done"]

FreeSlots == {t \in Tasks : task[t].pc = "idle"}

NextSlot == CHOOSE t \in FreeSlots : \A u \in FreeSlots : t <= u

Init ==
    /\ phase = "boot"
    /\ env \in Environments
    /\ token = NoToken
    /\ login = "none"
    /\ logins = 0
    /\ lateLogins = 0
    /\ task = [t \in Tasks |-> IdleTask]
    /\ running = 0
    /\ storage = <<>>
    /\ lastRead = {}
    /\ rejected = FALSE
    /\ caught = FALSE
    /\ crashed = FALSE
    /\ quotes = <<>>
    /\ calc = NoCalc

(***************************************************************************)
(* Startup                                                                 *)
(***************************************************************************)
isAngelOneConfigured == "ANGEL_ONE" \in env

\* Login requests issued by initializeAngelOne; generating the TOTP can throw
\* before the request is made.
InitializeAngelOne(totpOk, n) ==
    IF isAngelOneConfigured /\ totpOk THEN n + 1 ELSE n

\* `new MarketDataService()` followed by registerRoutes arming the interval.
Construct ==
    /\ phase = "boot"
    /\ \E totpOk \in BOOLEAN :
          /\ logins' = InitializeAngelOne(totpOk, logins)
          /\ login' = IF logins' > logins THEN "pending" ELSE "none"
    /\ phase' = "up"
    /\ UNCHANGED <<env, token, lateLogins, task, running, storage,
                   lastRead, rejected, caught, crashed>>
    /\ UNCHANGED fvars

\* The loginByPassword response: a jwtToken, or a failure that is only logged.
LoginResponse ==
    /\ login = "pending"
    /\ running = 0
    /\ \E ok \in BOOLEAN : token' = IF ok THEN "jwt" ELSE token
    /\ login' = "done"
    /\ UNCHANGED <<phase, env, logins, lateLogins, task, running, storage,
                   lastRead, rejected, caught, crashed>>
    /\ UNCHANGED fvars

(***************************************************************************)
(* getMarketData                                                           *)
(***************************************************************************)
\* Variant: getMarketData re-runs initializeAngelOne on an authentication failure.
ReloginOnFailure(authFailed, n) == IF authFailed THEN n + 1 ELSE n

\* Login requests issued so far, after getMarketData found the token absent
\* or saw the authenticated adapter fail (`authFailed`): it never calls
\* initializeAngelOne, so the count is unchanged.
Relogin(authFailed, n) == n

\* Invoke source k: its request goes out and the caller is suspended.
Invoke(tk, k) ==
    [tk EXCEPT !.pc = "await", !.idx = k, !.invoked = Append(@, k)]

\* getMarketData reaches a `return` with `result`.
Returned(tk, winner, raw, result) ==
    [tk EXCEPT !.pc = "returned", !.idx = 0, !.winner = winner, !.raw = raw,
               !.result = result]

\* The caller's `const marketData = await ...getMarketData(symbols)`: the
\* caller holds the returned records, the frame of getMarketData is gone.
Resumed(tk) ==
    [IdleTask EXCEPT !.pc = "save", !.kind = tk.kind,
                     !.batch = [i \in DOMAIN tk.result |->
                                   [symbol |-> tk.result[i].symbol,
                                    open   |-> tk.result[i].open]]]

\* Entry of a callback that starts with `await getMarketData(symbols)`.
BeginFetch(t, kind) ==
    LET k  == NextSource(0, token)
        tk == [IdleTask EXCEPT !.kind = kind, !.tok = token]
    IN  /\ logins' = Relogin(token = NoToken, logins)
        /\ lateLogins' = lateLogins + (logins' - logins)
        /\ task' = [task EXCEPT ![t] = Invoke(tk, k)]
        /\ running' = 0

\* The setInterval callback fires.
TimerTick ==
    /\ phase = "up"
    /\ ~crashed
    /\ running = 0
    /\ FreeSlots # {}
    /\ BeginFetch(NextSlot, "poll")
    /\ UNCHANGED <<phase, env, token, login, storage, lastRead, rejected, caught, crashed>>
    /\ UNCHANGED fvars

\* GET /api/market-data arrives.
HttpGetMarketData ==
    /\ phase = "up"
    /\ ~crashed
    /\ running = 0
    /\ FreeSlots # {}
    /\ BeginFetch(NextSlot, "get")
    /\ UNCHANGED <<phase, env, token, login, storage, lastRead, rejected, caught, crashed>>
    /\ UNCHANGED fvars

\* A handler that starts with `await storage.getMarketData()`
\* (/api/technical-analysis, /api/ai-analysis, /api/generate-signal).
HttpRead ==
    /\ phase = "up"
    /\ ~crashed
    /\ running = 0
    /\ lastRead' = GetMarketData(storage)
    /\ UNCHANGED <<phase, env, token, login, logins, lateLogins, task, running,
                   storage, rejected, caught, crashed>>
    /\ UNCHANGED fvars

\* Variant: the callback body has no try/catch.
CallbackNoCatch(threw) == FALSE

\* try { ... } catch (error) { console.error(...) } around the whole body of
\* the poll callback and of the GET handler: is a thrown exception caught?
CallbackCatch(threw) == threw

\* The exchange of the awaited source completes with outcome `out`.
AdapterResponds(t) ==
    /\ running = 0
    /\ ~crashed
    /\ task[t].pc = "await"
    /\ \E out \in Outcomes(task[t].idx, Symbols) :
          LET tk   == task[t]
              k    == tk.idx
              res  == IF out.kind = "threw" THEN "threw"
                      ELSE IF Len(out.syms) = 0 THEN "empty" ELSE "records"
              tk1  == [tk EXCEPT !.results = Append(@, res)]
              next == NextSource(k, tk.tok)
              raw  == Records(k, out)
          IN  /\ logins' = Relogin(dataSources[k] = "Angel One" /\ res # "records", logins)
              /\ lateLogins' = lateLogins + (logins' - logins)
              /\ CASE LoopControl(out) = "return" ->
                     /\ task' = [task EXCEPT ![t] =
                           Returned(tk1, k, raw, enrichMarketDataWithOpen(raw, storage))]
                     /\ running' = t
                     /\ UNCHANGED <<rejected, caught, crashed>>
                [] LoopControl(out) = "continue" /\ next # 0 ->
                     /\ task' = [task EXCEPT ![t] = Invoke(tk1, next)]
                     /\ running' = 0
                     /\ UNCHANGED <<rejected, caught, crashed>>
                [] LoopControl(out) = "continue" /\ next = 0 ->
                     /\ task' = [task EXCEPT ![t] = Returned(tk1, 0, <<>>, <<>>)]
                     /\ running' = t
                     /\ UNCHANGED <<rejected, caught, crashed>>
                [] OTHER ->
                     /\ task' = [task EXCEPT ![t] = DoneTask]
                     /\ rejected' = TRUE
                     /\ caught' = (caught \/ CallbackCatch(TRUE))
                     /\ crashed' = (crashed \/ ~CallbackCatch(TRUE))
                     /\ running' = 0
    /\ UNCHANGED <<phase, env, token, login, storage, lastRead>>
    /\ UNCHANGED fvars

(***************************************************************************)
(* Save loop, read-back and analysis                                       *)
(***************************************************************************)
\* The callback continues after `await getMarketData(...)`.
Resume(t) ==
    /\ running \in {0, t}
    /\ task[t].pc = "returned"
    /\ task' = [task EXCEPT ![t] = Resumed(task[t])]
    /\ running' = t
    /\ UNCHANGED <<phase, env, token, login, logins, lateLogins, storage,
                   lastRead, rejected, caught, crashed>>
    /\ UNCHANGED fvars

\* Variant: the read-back is issued after the first write.
SaveLoopDoneEarly(saved, batch) == saved >= 1 \/ saved >= Len(batch)

\* Exit test of `for (const data of marketData)`.
SaveLoopDone(saved, batch) == saved >= Len(batch)

\* Variant: a repository whose save waits for I/O, so the event loop is free
\* between two writes of a batch.
ResumeAfterIo(t) == 0

\* Who runs after `await storage.saveMarketData(data)`: MemStorage settles the
\* promise at once, so the continuation stays on the microtask chain.
ResumeAfterSave(t) == t

\* One iteration of the save loop.  The stored record keeps the symbol (the
\* only field a modelled step reads back) and, as history, the batch it
\* belongs to and that batch's size.
SaveStep(t) ==
    /\ running \in {0, t}
    /\ task[t].pc = "save"
    /\ ~SaveLoopDone(task[t].saved, task[t].batch)
    /\ LET tk  == task[t]
           rec == [symbol |-> tk.batch[tk.saved + 1].symbol,
                   batch  |-> t,
                   of     |-> Len(tk.batch)]
       IN  /\ storage' = SaveMarketData(storage, rec)
           /\ task' = [task EXCEPT ![t].saved = @ + 1,
                                   ![t].wrote = @ \cup {Len(storage')}]
    /\ running' = ResumeAfterSave(t)
    /\ UNCHANGED <<phase, env, token, login, logins, lateLogins,
                   lastRead, rejected, caught, crashed>>
    /\ UNCHANGED fvars

\* Poll callback after its loop: broadcast, then `await storage.getMarketData()`.
ReadBack(t) ==
    /\ running \in {0, t}
    /\ task[t].pc = "save"
    /\ task[t].kind = "poll"
    /\ SaveLoopDone(task[t].saved, task[t].batch)
    /\ task' = [task EXCEPT ![t].pc = "analyze", ![t].snap = GetMarketData(storage)]
    /\ running' = t
    /\ UNCHANGED <<phase, env, token, login, logins, lateLogins, storage,
                   lastRead, rejected, caught, crashed>>
    /\ UNCHANGED fvars

\* GET handler after its loop: broadcast and res.json.
Respond(t) ==
    /\ running \in {0, t}
    /\ task[t].pc = "save"
    /\ task[t].kind = "get"
    /\ SaveLoopDone(task[t].saved, task[t].batch)
    /\ task' = [task EXCEPT ![t] =
          DoneTask]
    /\ running' = 0
    /\ UNCHANGED <<phase, env, token, login, logins, lateLogins, storage,
                   lastRead, rejected, caught, crashed>>
    /\ UNCHANGED fvars

\* analyzeTechnicals and the signal loop; analyzeTechnicals can throw
\* (Math.min(...validPrices) on a long series).
Analyze(t) ==
    /\ running \in {0, t}
    /\ task[t].pc = "analyze"
    /\ \E threw \in BOOLEAN :
          /\ task' = [task EXCEPT ![t] = DoneTask]
          /\ caught' = (caught \/ (threw /\ CallbackCatch(threw)))
          /\ crashed' = (crashed \/ (threw /\ ~CallbackCatch(threw)))
    /\ running' = 0
    /\ UNCHANGED <<phase, env, token, login, logins, lateLogins, storage,
                   lastRead, rejected>>
    /\ UNCHANGED fvars

Next ==
    \/ Construct
    \/ LoginResponse
    \/ TimerTick
    \/ HttpGetMarketData
    \/ HttpRead
    \/ \E t \in Tasks : AdapterResponds(t)
    \/ \E t \in Tasks : Resume(t)
    \/ \E t \in Tasks : SaveStep(t)
    \/ \E t \in Tasks : ReadBack(t)
    \/ \E t \in Tasks : Respond(t)
    \/ \E t \in Tasks : Analyze(t)

Spec == Init /\ [][Next]_vars

\* What the runtime guarantees: a continuation on the microtask chain runs,
\* and an armed interval fires.  Nothing guarantees that a network exchange
\* completes: no request carries a timeout or an abort signal.
FairSpec ==
    /\ Spec
    /\ WF_vars(TimerTick)
    /\ \A t \in Tasks : WF_vars(Resume(t) \/ SaveStep(t) \/ ReadBack(t) \/ Respond(t) \/ Analyze(t))

(***************************************************************************)
(* Properties                                                              *)
(***************************************************************************)
\* getMarketData is waiting for a source.
InFetch(t) == task[t].pc = "await"

\* A poll cycle is between the start of its fetch and its last repository write.
InFetchWrite(t) ==
    /\ task[t].kind = "poll"
    /\ \/ task[t].pc \in {"await", "returned"}
       \/ task[t].pc = "save" /\ ~SaveLoopDone(task[t].saved, task[t].batch)

\* C1: no two poll cycles are inside their fetch+write sequence at the same
\* time (single-flight).
C1_SingleFlight ==
    \A t, u \in Tasks : InFetchWrite(t) /\ InFetchWrite(u) => t = u

\* The enabled entries of dataSources, in list order, as getMarketData saw
\* them with token `tok`.
EnabledList(tok) == SelectSeq([k \in Sources |-> k], LAMBDA k : Enabled(k, tok))

\* C2: the sources are invoked strictly in list order, each only after every
\* earlier one threw or returned no record, and none after one that returned
\* at least one record.
C2_OrderedFailover ==
    \A t \in Tasks : task[t].pc \in {"await", "returned"} =>
        LET inv == task[t].invoked
            res == task[t].results
            el  == EnabledList(task[t].tok)
        IN  /\ Len(inv) <= Len(el)
            /\ inv = SubSeq(el, 1, Len(inv))
            /\ Len(res) = IF InFetch(t) THEN Len(inv) - 1 ELSE Len(inv)
            /\ \A i \in DOMAIN res : i < Len(inv) => res[i] \in {"threw", "empty"}
            /\ \A i \in DOMAIN res : res[i] = "records" =>
                   /\ i = Len(inv)
                   /\ ~InFetch(t)
                   /\ task[t].winner = inv[i]

\* A first source failed, the second returned three records, and later
\* sources exist that were never invoked.
C2_Witness ==
    \E t \in Tasks :
        /\ task[t].pc = "returned"
        /\ Len(task[t].invoked) = 2
        /\ task[t].results[1] \in {"threw", "empty"}
        /\ task[t].results[2] = "records"
        /\ Len(task[t].result) = 3
        /\ NextSource(task[t].winner, task[t].tok) # 0

\* C3: the result of one getMarketData call is exactly the winning source's
\* records: same count, same symbols in the same order, every record from
\* that one source.
C3_SingleSource ==
    \A t \in Tasks : task[t].pc = "returned" /\ task[t].winner # 0 =>
        /\ Len(task[t].result) = Len(task[t].raw)
        /\ \A i \in DOMAIN task[t].result :
              /\ i \in DOMAIN task[t].raw
              /\ task[t].result[i].symbol = task[t].raw[i].symbol
              /\ task[t].result[i].src = task[t].winner
        /\ \A i \in DOMAIN task[t].raw : task[t].raw[i].src = task[t].winner

\* After an earlier source was tried, the winner's three records came back
\* without an open price and the enricher completed each of them.
C3_Witness ==
    \E t \in Tasks :
        /\ task[t].pc = "returned"
        /\ Len(task[t].invoked) >= 2
        /\ Len(task[t].raw) = 3
        /\ \A i \in DOMAIN task[t].raw : task[t].raw[i].open = "0"
        /\ \A i \in DOMAIN task[t].result : task[t].result[i].open \in {"prev", "own"}

\* C4: getMarketData never rejects; when every enabled source threw or came
\* back empty it returns the empty list.
C4_NeverThrows ==
    /\ ~rejected
    /\ \A t \in Tasks : task[t].pc = "returned" /\ task[t].winner = 0 =>
          /\ task[t].result = <<>>
          /\ task[t].invoked = EnabledList(task[t].tok)
          /\ Len(task[t].results) = Len(task[t].invoked)
          /\ \A i \in DOMAIN task[t].results : task[t].results[i] \in {"threw", "empty"}

\* Every source was tried, two of them threw, and the call returned [].
C4_Witness ==
    \E t \in Tasks :
        /\ task[t].pc = "returned"
        /\ task[t].winner = 0
        /\ task[t].result = <<>>
        /\ Len(task[t].results) = Len(dataSources)
        /\ Cardinality({i \in DOMAIN task[t].results : task[t].results[i] = "threw"}) = 2

\* C5: every fetch eventually returns, even when a source's network exchange
\* never completes.
C5_FetchReturns == \A t \in Tasks : InFetch(t) ~> ~InFetch(t)

\* C6: no cycle outcome escapes the callback or stops the timer: after any
\* cycle the interval can still start another one.
C6_LoopSurvives ==
    /\ ~crashed
    /\ (phase = "up" /\ running = 0 /\ FreeSlots # {}) => ENABLED TimerTick

\* An analysis threw inside a cycle and the next tick can still start.
C6_Witness ==
    /\ caught
    /\ \E t \in Tasks : task[t].pc = "done"
    /\ ENABLED TimerTick

\* C7: when a poll cycle has issued its read-back, every write of its batch
\* is complete and the series it read contains every record it wrote.
C7_ReadAfterWrite ==
    \A t \in Tasks : task[t].pc = "analyze" =>
        /\ task[t].saved = Len(task[t].batch)
        /\ Cardinality(task[t].wrote) = Len(task[t].batch)
        /\ task[t].wrote \subseteq task[t].snap

\* A cycle wrote three records and read them back.
C7_Witness ==
    \E t \in Tasks :
        /\ task[t].pc = "analyze"
        /\ Cardinality(task[t].wrote) = 3
        /\ task[t].wrote \subseteq task[t].snap

\* A read is torn when it holds some but not all records of a batch.
Torn(S) ==
    \E i \in S :
        Cardinality({j \in S : storage[j].batch = storage[i].batch}) < storage[i].of

\* C8: no reader, neither a request handler nor an overlapping cycle, sees
\* part of a batch: each read holds all of a batch's records or none.
C8_NoTornRead ==
    /\ ~Torn(lastRead)
    /\ \A t \in Tasks : task[t].pc = "analyze" => ~Torn(task[t].snap)

\* A request handler read the repository after one complete batch of three,
\* and a cycle that wrote a second batch is reading back all six records.
C8_Witness ==
    \E t \in Tasks :
        /\ task[t].pc = "analyze"
        /\ Cardinality(task[t].wrote) = 3
        /\ Cardinality(task[t].snap) = 6
        /\ Cardinality(lastRead) = 3
        /\ \A i \in lastRead : storage[i].batch # t /\ storage[i].of = 3

\* C9: a source that needs a credential the environment does not hold is
\* never sent a request.
C9_NoRequestWithoutCredentials ==
    \A t \in Tasks : \A i \in DOMAIN task[t].invoked :
        RequiresCredentials(task[t].invoked[i]) => Credential(task[t].invoked[i]) \in env

\* C10: the login request is issued at most once, at startup, and never from
\* getMarketData.
C10_LoginOnce == logins <= 1 /\ lateLogins = 0

\* The one login succeeded and a later fetch saw the authenticated source throw.
C10_Witness ==
    /\ logins = 1
    /\ \E t \in Tasks :
          /\ Len(task[t].results) >= 1
          /\ dataSources[task[t].invoked[1]] = "Angel One"
          /\ task[t].results[1] = "threw"

(***************************************************************************)
(* Outbound requests of one getMarketData(symbols) call                    *)
(*                                                                         *)
(* getMarketData is a public method taking any symbol list.  A symbol is   *)
(* modelled as its sequence of characters, so that the allow-list test is  *)
(* computed character by character.                                        *)
(***************************************************************************)
MaxSymbols == 2

UpperCase == {"A", "B", "C", "D", "E", "F", "G", "H", "I", "J", "K", "L", "M",
              "N", "O", "P", "Q", "R", "S", "T", "U", "V", "W", "X", "Y", "Z"}

Digits == {"0", "1", "2", "3", "4", "5", "6", "7", "8", "9"}

\* /^[A-Z0-9_]+$/.test(symbol)
IsAllowed(symbol) ==
    /\ Len(symbol) > 0
    /\ \A i \in DOMAIN symbol : symbol[i] \in UpperCase \cup Digits \cup {"_"}

\* Symbol texts a caller may pass: three that match the pattern and three
\* that do not (lower case, a separator, a path).
SymbolTexts ==
    {<<"T", "C", "S">>, <<"A", "_", "1">>, <<"S", "E", "N", "S", "E", "X">>,
     <<"t", "c", "s">>, <<"A", ";", "B">>, <<".", ".", "/", "A">>}

SymbolLists ==
    UNION {[1..n -> SymbolTexts] : n \in 1..MaxSymbols}

\* The symbols carried by the requests source k sends for `symbols`.
\* getAngelOneData posts symbols[0] as it is; getBSEData fetches one fixed
\* URL; every other adapter tests the pattern before it builds a URL.
RequestSymbols(k, symbols) ==
    CASE dataSources[k] = "Angel One" -> SubSeq(symbols, 1, 1)
      [] dataSources[k] = "BSE API"   -> <<>>
      [] OTHER                        -> SelectSeq(symbols, IsAllowed)

\* getMarketData(symbols) in which the first n enabled sources were tried
\* (each but the last came back without a record).
FetchRequests ==
    /\ \E symbols \in SymbolLists, tok \in {NoToken, "jwt"} :
          \E n \in 1..Len(EnabledList(tok)) :
             calc' = [op      |-> "fetch",
                      symbols |-> symbols,
                      sent    |-> [i \in 1..n |->
                                     [src     |-> EnabledList(tok)[i],
                                      symbols |-> RequestSymbols(EnabledList(tok)[i], symbols)]]]
    /\ UNCHANGED <<phase, env, token, login, logins, lateLogins, task, running,
                   storage, lastRead, rejected, caught, crashed, quotes>>

\* C11: no source tried during a fetch sends a request carrying a symbol
\* that fails the allow-list pattern.
C11_NoInvalidSymbolSent ==
    calc.op = "fetch" =>
        \A i \in DOMAIN calc.sent : \A j \in DOMAIN calc.sent[i].symbols :
            IsAllowed(calc.sent[i].symbols[j])

RequestNext == FetchRequests

\* getMarketData called with arbitrary symbol lists.
RequestSpec == Init /\ [][RequestNext]_vars

(***************************************************************************)
(* Series enricher on record values                                        *)
(*                                                                         *)
(* Prices and opens are the strings the adapters build with toString().    *)
(***************************************************************************)
MaxBatch == 2

MaxQuotes == 2

\* undefined, null or '' : the values `!openPrice` and `|| null` treat alike.
Absent == ""

Prices == {"0", "100", "101.5"}

Opens == {Absent, "0", "null", "0.00", "abc", "100", "101.5"}

\* Every price text of the model is a multiple of 0.5: numbers are counted
\* in halves.
UnitsPerOne == 2

\* What parseFloat returns for a text that is no number.
NaN == -1

\* parseFloat of a price text, in halves.
ParseFloat(text) ==
    CASE text = "0"      -> 0
      [] text = "0.00"   -> 0
      [] text = "100"    -> 100 * UnitsPerOne
      [] text = "100.00" -> 100 * UnitsPerOne
      [] text = "100.50" -> 100 * UnitsPerOne + 1
      [] text = "101.00" -> 101 * UnitsPerOne
      [] text = "101.5"  -> 101 * UnitsPerOne + 1
      [] OTHER           -> NaN

\* An opening price that is present, numeric and not zero.
Usable(open) == open # Absent /\ ParseFloat(open) > 0

\* MemStorage.getLatestMarketData(symbol): the record with the greatest
\* timestamp, the earliest stored one among equals (stable sort), 0 if none.
getLatestMarketData(store, symbol) ==
    LET own == {i \in DOMAIN store : store[i].symbol = symbol}
    IN  IF own = {} THEN 0
        ELSE CHOOSE i \in own :
                \A j \in own : \/ store[j].ts < store[i].ts
                               \/ store[j].ts = store[i].ts /\ i <= j

\* latestData?.price || null
getPreviousClosePrice(store, symbol) ==
    IF getLatestMarketData(store, symbol) = 0 THEN Absent
    ELSE store[getLatestMarketData(store, symbol)].price

\* Variant: the enricher overwrites open whenever a previous price exists.
EnrichOpenAlways(data, previousClose) ==
    IF previousClose # Absent THEN previousClose ELSE data.open

\* Body of the enricher's loop: the open of one record.
EnrichOpen(data, previousClose) ==
    IF data.open = Absent \/ data.open = "0" \/ data.open = "null"
    THEN IF previousClose # Absent THEN previousClose ELSE data.price
    ELSE data.open

\* enrichMarketDataWithOpen on record values.
EnrichValues(marketData, store) ==
    [i \in DOMAIN marketData |->
        [marketData[i] EXCEPT !.open =
            EnrichOpen(marketData[i], getPreviousClosePrice(store, marketData[i].symbol))]]

\* The save loop: saveMarketData keeps the record, with `open || null`.
SaveAll(store, batch) == store \o batch

\* Timestamp of the records of the next fetch (new Date() in the adapter).
Now(store) == Len(store) + 1

\* Record batches an adapter can hand to the enricher.
QuoteBatches(now) ==
    UNION {[1..n -> [symbol : {"NIFTY", "SENSEX"}, price : Prices, open : Opens, ts : {now}]] :
              n \in 1..MaxBatch}

\* One fetch: the winning source's batch is enriched and then saved.
FetchEnrichSave ==
    /\ \E batch \in QuoteBatches(Now(quotes)) :
          /\ Len(quotes) + Len(batch) <= MaxQuotes
          /\ calc' = [op     |-> "enrich",
                      in     |-> batch,
                      out    |-> EnrichValues(batch, quotes),
                      before |-> Len(quotes)]
          /\ quotes' = SaveAll(quotes, EnrichValues(batch, quotes))
    /\ UNCHANGED <<phase, env, token, login, logins, lateLogins, task, running,
                   storage, lastRead, rejected, caught, crashed>>

EnrichNext == FetchEnrichSave

EnrichSpec == Init /\ [][EnrichNext]_vars

\* The repository as the enricher of the recorded call saw it.
QuotesBefore == SubSeq(quotes, 1, calc.before)

C13_MissingOpenFilled ==
    calc.op = "enrich" =>
        \A i \in DOMAIN calc.in : ~Usable(calc.in[i].open) =>
            calc.out[i].open =
                IF getPreviousClosePrice(QuotesBefore, calc.in[i].symbol) # Absent
                THEN getPreviousClosePrice(QuotesBefore, calc.in[i].symbol)
                ELSE calc.in[i].price

\* C14: every stored record has a usable opening price.
C14_StoredOpenUsable ==
    \A i \in DOMAIN quotes : Usable(quotes[i].open)

\* ---------------------------------------------------------------------
\* Signal scorer (generateSignalFromTechnicals).

Abs(x) == IF x < 0 THEN -x ELSE x

Min(a, b) == IF a < b THEN a ELSE b

Max(a, b) == IF a > b THEN a ELSE b

\* Indicator sets handed to the scorer: the fields the scorer reads.
RsiValues == {30, 35, 40, 45, 50, 55, 60, 65, 70}

MacdValues == [macd : {-1, 0, 1}, signal : {0}, histogram : {-1, 0, 1}]

IndicatorSets ==
    [rsi : RsiValues, macd : MacdValues, ema20 : {99, 100, 101}, ema50 : {100},
     supertrend : {"LONG", "SHORT"}]

\* Math.random() * 2 - 1, in hundredths.
VolatilityFactors == {-75, -50, 0, 50, 75}

\* Each rule of the scorer: the points it adds to score, the reasons it pushes.
RsiRule(technicalData) ==
    IF technicalData.rsi < 35 THEN <<3, <<"RSI oversold">>>>
    ELSE IF technicalData.rsi < 45 THEN <<1, <<"RSI below midline">>>>
    ELSE IF technicalData.rsi > 65 THEN <<-3, <<"RSI overbought">>>>
    ELSE IF technicalData.rsi > 55 THEN <<-1, <<"RSI above midline">>>>
    ELSE <<0, <<>>>>

MacdRule(technicalData) ==
    LET m == technicalData.macd
    IN  IF m.macd > m.signal /\ m.histogram > 0 THEN <<2, <<"MACD bullish crossover">>>>
        ELSE IF m.macd < m.signal /\ m.histogram < 0 THEN <<-2, <<"MACD bearish crossover">>>>
        ELSE IF m.macd > m.signal THEN <<1, <<"MACD above signal">>>>
        ELSE <<-1, <<"MACD below signal">>>>

EmaRule(technicalData) ==
    IF technicalData.ema20 > technicalData.ema50
    THEN <<2, <<"EMA bullish alignment">>>>
    ELSE <<-2, <<"EMA bearish alignment">>>>

SupertrendRule(technicalData) ==
    IF technicalData.supertrend = "LONG"
    THEN <<1, <<"Supertrend bullish">>>>
    ELSE <<-1, <<"Supertrend bearish">>>>

\* The volatility step: |volatilityFactor| > 0.5 moves the score by one.
MomentumRule(volatilityFactor) ==
    IF Abs(volatilityFactor) > 50
    THEN IF volatilityFactor > 0
         THEN <<1, <<"market momentum positive">>>>
         ELSE <<-1, <<"market momentum negative">>>>
    ELSE <<0, <<>>>>

Rules(technicalData, volatilityFactor) ==
    <<RsiRule(technicalData), MacdRule(technicalData), EmaRule(technicalData),
      SupertrendRule(technicalData), MomentumRule(volatilityFactor)>>

\* The scorer's local variable score once every rule has run.
Score(technicalData, volatilityFactor) ==
    LET r == Rules(technicalData, volatilityFactor)
    IN  r[1][1] + r[2][1] + r[3][1] + r[4][1] + r[5][1]

\* Math.min(100, Math.max(10, Math.abs(score) * 15 + 20))
Strength(score) == Min(100, Max(10, Abs(score) * 15 + 20))

\* The returned decision; reasoning is the list that reasons.join(', ') prints.
generateSignalFromTechnicals(technicalData, volatilityFactor) ==
    LET r     == Rules(technicalData, volatilityFactor)
        score == Score(technicalData, volatilityFactor)
    IN  [signal    |-> IF score > 1 THEN "BUY" ELSE IF score < -1 THEN "SELL" ELSE "HOLD",
         strength  |-> Strength(score),
         reasoning |-> r[1][2] \o r[2][2] \o r[3][2] \o r[4][2] \o r[5][2]]

\* No earlier call to compare with.
NoSignal == [signal |-> "none", strength |-> 0, reasoning |-> <<>>]

\* A call of the scorer on some indicator set; Math.random() draws the factor.
\* The scorer and the analysis keep no state between calls, so calc records
\* one call of a behaviour and, for the scorer, its repetitions.
GenerateSignal ==
    /\ calc = NoCalc
    /\ \E technicalData \in IndicatorSets, volatilityFactor \in VolatilityFactors :
          calc' = [op    |-> "signal",
                   in    |-> technicalData,
                   out   |-> generateSignalFromTechnicals(technicalData, volatilityFactor),
                   score |-> Score(technicalData, volatilityFactor),
                   first |-> NoSignal]
    /\ UNCHANGED <<phase, env, token, login, logins, lateLogins, task, running,
                   storage, lastRead, rejected, caught, crashed, quotes>>

\* The scorer is called again on the indicator set of the recorded call.
GenerateSignalAgain ==
    /\ calc.op = "signal"
    /\ \E volatilityFactor \in VolatilityFactors :
          calc' = [calc EXCEPT
                     !.out   = generateSignalFromTechnicals(calc.in, volatilityFactor),
                     !.score = Score(calc.in, volatilityFactor),
                     !.first = calc.out]
    /\ UNCHANGED <<phase, env, token, login, logins, lateLogins, task, running,
                   storage, lastRead, rejected, caught, crashed, quotes>>

\* ---------------------------------------------------------------------
\* Sufficiency gate and analysis (analyzeTechnicals, analyzeMultiTimeframe).

MaxPoints == 60

\* Thresholds of the gate of analyzeTechnicals.
MinPoints == 50

MinValidPrices == 50

MinPriceRange == 1

\* priceStdDev < 0.001, written 1 / StdDevPerOne.
StdDevPerOne == 1000

MinTimestamps == 10

\* Threshold of analyzeMultiTimeframe.
MinTimeframePoints == 10

AnalysisSymbols == {"NIFTY", "BANKNIFTY", "SENSEX"}

timeframes == {"1m", "5m", "15m", "1h"}

\* Stored series, described by length, price pattern and the number of
\* distinct timestamps its records carry.
Lengths == {0, 9, 10, 49, 50, MaxPoints}

Patterns == {"flat", "step", "narrow", "holes", "zeros"}

StampCounts == {1, 9, 10, MaxPoints}

SeriesShapes == [n : Lengths, pattern : Patterns, stamps : StampCounts]

PriceAt(pattern, i) ==
    CASE pattern = "flat"   -> "100.00"
      [] pattern = "step"   -> IF i % 2 = 1 THEN "100.00" ELSE "101.00"
      [] pattern = "narrow" -> IF i % 2 = 1 THEN "100.00" ELSE "100.50"
      [] pattern = "holes"  -> IF i % 6 = 0 THEN "abc"
                               ELSE IF i % 2 = 1 THEN "100.00" ELSE "101.00"
      [] pattern = "zeros"  -> IF i % 5 = 0 THEN "0"
                               ELSE IF i % 2 = 1 THEN "100.00" ELSE "101.00"

Series(symbol, shape) ==
    [i \in 1..shape.n |->
        [symbol |-> symbol, price |-> PriceAt(shape.pattern, i), ts |-> (i - 1) % shape.stamps]]

\* A series of another symbol that has everything the gate asks for.
PeerShape == [n |-> MaxPoints, pattern |-> "step", stamps |-> MaxPoints]

\* The repository's records as the analysis receives them.
MarketData(shape, peer) ==
    Series("NIFTY", shape) \o (IF peer THEN Series("BANKNIFTY", PeerShape) ELSE <<>>)

RECURSIVE SumSeq(_)
SumSeq(values) ==
    IF values = <<>> THEN 0 ELSE Head(values) + SumSeq(Tail(values))

SeqMin(values) ==
    CHOOSE v \in {values[i] : i \in DOMAIN values} : \A i \in DOMAIN values : v <= values[i]

SeqMax(values) ==
    CHOOSE v \in {values[i] : i \in DOMAIN values} : \A i \in DOMAIN values : v >= values[i]

\* calculateStandardDeviation(values) < 1 / perOne, in exact arithmetic.
\* With n values v of sum S, in halves, the variance is
\* Sum((n*v - S)^2) / (n^3 * UnitsPerOne^2); the returned root is below
\* 1 / perOne when the variance is below 1 / perOne^2.  An empty list gives 0.
StdDevBelow(values, perOne) ==
    LET n == Len(values)
        S == SumSeq(values)
        D == SumSeq([i \in DOMAIN values |-> (n * values[i] - S) * (n * values[i] - S)])
    IN  \/ n = 0
        \/ D <= (n * n * n * UnitsPerOne * UnitsPerOne - 1) \div (perOne * perOne)

\* Variant: the gate without the test on distinct timestamps.
GateRejectsNoTimestamps(symbolData) ==
    LET prices      == [i \in DOMAIN symbolData |-> ParseFloat(symbolData[i].price)]
        validPrices == SelectSeq(prices, LAMBDA p : p > 0 /\ p # NaN)
    IN  \/ Len(symbolData) < MinPoints
        \/ Len(validPrices) < MinValidPrices
        \/ SeqMax(validPrices) - SeqMin(validPrices) < MinPriceRange * UnitsPerOne
        \/ StdDevBelow(validPrices, StdDevPerOne)

\* The four `continue` tests of analyzeTechnicals, in the code's order.
GateRejects(symbolData) ==
    LET prices      == [i \in DOMAIN symbolData |-> ParseFloat(symbolData[i].price)]
        validPrices == SelectSeq(prices, LAMBDA p : p > 0 /\ p # NaN)
    IN  \/ Len(symbolData) < MinPoints
        \/ Len(validPrices) < MinValidPrices
        \/ SeqMax(validPrices) - SeqMin(validPrices) < MinPriceRange * UnitsPerOne
        \/ StdDevBelow(validPrices, StdDevPerOne)
        \/ Cardinality({symbolData[i].ts : i \in DOMAIN symbolData}) < MinTimestamps

SymbolData(marketData, symbol) ==
    SelectSeq(marketData, LAMBDA d : d.symbol = symbol)

\* analyzeTechnicals: the symbols that get an entry in result; the indicator
\* functions run for exactly these.
analyzeTechnicals(marketData) ==
    IF Len(marketData) = 0 THEN {}
    ELSE {symbol \in AnalysisSymbols : ~GateRejects(SymbolData(marketData, symbol))}

\* The entry analyzeMultiTimeframe writes for a series that is too short.
InsufficientData ==
    [technicalData |-> [rsi |-> 50,
                        macd |-> [macd |-> 0, signal |-> 0, histogram |-> 0],
                        ema20 |-> 0, ema50 |-> 0, supertrend |-> "LONG"],
     signal |-> [signal |-> "HOLD", strength |-> 0, reasoning |-> <<"Insufficient data">>]]

\* analyzeMultiTimeframe: one entry per symbol and timeframe.  technicalData
\* is what the indicator functions return on the randomly shifted prices.
analyzeMultiTimeframe(marketData, technicalData, volatilityFactor) ==
    IF Len(marketData) = 0 THEN [symbol \in {} |-> <<>>]
    ELSE [symbol \in AnalysisSymbols |->
            [timeframe \in timeframes |->
                IF Len(SymbolData(marketData, symbol)) < MinTimeframePoints
                THEN InsufficientData
                ELSE [technicalData |-> technicalData,
                      signal |-> generateSignalFromTechnicals(technicalData, volatilityFactor)]]]

\* Symbols for which analyzeMultiTimeframe calls the indicator functions.
TimeframeInvoked(marketData) ==
    IF Len(marketData) = 0 THEN {}
    ELSE {symbol \in AnalysisSymbols :
            Len(SymbolData(marketData, symbol)) >= MinTimeframePoints}

\* Indicator sets calculateMACD and the other functions can return:
\* histogram = macd - signal has the sign of macd.
TimeframeSets ==
    {t \in IndicatorSets : /\ t.rsi \in {30, 50, 70}
                           /\ t.macd.histogram = t.macd.macd
                           /\ t.ema20 # t.ema50}

\* A call of analyzeTechnicals on the stored records.
AnalyzeTechnicals ==
    /\ calc = NoCalc
    /\ \E shape \in SeriesShapes, peer \in BOOLEAN :
          calc' = [op      |-> "technicals",
                   shape   |-> shape,
                   peer    |-> peer,
                   result  |-> analyzeTechnicals(MarketData(shape, peer))]
    /\ UNCHANGED <<phase, env, token, login, logins, lateLogins, task, running,
                   storage, lastRead, rejected, caught, crashed, quotes>>

\* A call of analyzeMultiTimeframe on the stored records; the random draws
\* of one call are taken equal for every symbol and timeframe.
AnalyzeMultiTimeframe ==
    /\ calc = NoCalc
    /\ \E shape \in SeriesShapes, peer \in BOOLEAN :
       \E technicalData \in TimeframeSets, volatilityFactor \in VolatilityFactors :
          calc' = [op      |-> "timeframes",
                   shape   |-> shape,
                   peer    |-> peer,
                   invoked |-> TimeframeInvoked(MarketData(shape, peer)),
                   result  |-> analyzeMultiTimeframe(MarketData(shape, peer),
                                                     technicalData, volatilityFactor)]
    /\ UNCHANGED <<phase, env, token, login, logins, lateLogins, task, running,
                   storage, lastRead, rejected, caught, crashed, quotes>>

AnalysisNext ==
    \/ AnalyzeTechnicals
    \/ AnalyzeMultiTimeframe
    \/ GenerateSignal
    \/ GenerateSignalAgain

AnalysisSpec == Init /\ [][AnalysisNext]_vars

\* The records of one symbol in the recorded call.
CalcSymbolData(symbol) == SymbolData(MarketData(calc.shape, calc.peer), symbol)

\* C15: for a series of 60 samples of constant price 100.00 the gate rejects
\* the symbol and no indicator function runs for it, in analyzeTechnicals and
\* in analyzeMultiTimeframe.
C15_FlatSeriesNotAnalysed ==
    /\ (calc.op = "technicals" /\ calc.shape.n >= 60 /\ calc.shape.pattern = "flat")
          => "NIFTY" \notin calc.result
    /\ (calc.op = "timeframes" /\ calc.shape.n >= 60 /\ calc.shape.pattern = "flat")
          => "NIFTY" \notin calc.invoked

\* C16: analyzeTechnicals computes indicators for a symbol exactly when none
\* of these holds for its series: fewer than 50 points; fewer than 50 points
\* with a strictly positive, non-NaN price; price range below 1; standard
\* deviation below 0.001; fewer than 10 distinct timestamps.
C16_GateConditions ==
    calc.op = "technicals" =>
        \A symbol \in AnalysisSymbols :
            LET series == CalcSymbolData(symbol)
                valid  == SelectSeq(series, LAMBDA d : ParseFloat(d.price) > 0)
                values == [i \in DOMAIN valid |-> ParseFloat(valid[i].price)]
                any    == \/ Len(series) < 50
                          \/ Len(valid) < 50
                          \/ \A i, j \in DOMAIN values :
                                values[i] - values[j] < 1 * UnitsPerOne
                          \/ StdDevBelow(values, 1000)
                          \/ Cardinality({series[i].ts : i \in DOMAIN series}) < 10
            IN  symbol \in calc.result <=> ~any

\* analyzeTechnicals saw a series that fails on the distinct timestamps
\* alone and left it out, next to a series that passes and got indicators.
C16_Witness ==
    /\ calc.op = "technicals"
    /\ calc.shape.n >= 50
    /\ calc.shape.pattern = "step"
    /\ calc.shape.stamps = 9
    /\ calc.result = {"BANKNIFTY"}

\* C17: a symbol whose series fails the gate has no entry in the output of
\* analyzeTechnicals nor in the output of analyzeMultiTimeframe.
C17_RejectedSymbolOmitted ==
    /\ calc.op = "technicals" =>
          \A symbol \in AnalysisSymbols :
              GateRejects(CalcSymbolData(symbol)) => symbol \notin calc.result
    /\ calc.op = "timeframes" =>
          \A symbol \in AnalysisSymbols :
              GateRejects(CalcSymbolData(symbol)) => symbol \notin DOMAIN calc.result

\* C18: every decision returned by generateSignalFromTechnicals or placed in
\* the output of analyzeMultiTimeframe has a signal among BUY, SELL, HOLD and
\* a strength from 10 to 100.
C18_DecisionInRange ==
    /\ calc.op = "signal" =>
          /\ calc.out.signal \in {"BUY", "SELL", "HOLD"}
          /\ calc.out.strength \in 10..100
    /\ calc.op = "timeframes" =>
          \A symbol \in DOMAIN calc.result : \A timeframe \in timeframes :
              /\ calc.result[symbol][timeframe].signal.signal \in {"BUY", "SELL", "HOLD"}
              /\ calc.result[symbol][timeframe].signal.strength \in 10..100

\* C19: the scorer's score is the sum of the points of the rule table (RSI,
\* MACD, EMA, Supertrend), and the signal is BUY above 1, SELL below -1,
\* HOLD otherwise.
C19_ScoreIsRuleTable ==
    calc.op = "signal" =>
        LET t     == calc.in
            rsi   == IF t.rsi < 35 THEN 3
                     ELSE IF t.rsi < 45 THEN 1
                     ELSE IF t.rsi > 65 THEN -3
                     ELSE IF t.rsi > 55 THEN -1 ELSE 0
            macd  == IF t.macd.macd > t.macd.signal
                     THEN (IF t.macd.histogram > 0 THEN 2 ELSE 1)
                     ELSE IF t.macd.macd < t.macd.signal
                     THEN (IF t.macd.histogram < 0 THEN -2 ELSE -1)
                     ELSE 0
            ema   == IF t.ema20 > t.ema50 THEN 2 ELSE -2
            trend == IF t.supertrend = "LONG" THEN 1 ELSE -1
            table == rsi + macd + ema + trend
        IN  /\ calc.score = table
            /\ calc.out.signal =
                  IF table > 1 THEN "BUY" ELSE IF table < -1 THEN "SELL" ELSE "HOLD"

\* C20: two calls of the scorer with the same indicator set return the same
\* signal, strength and reasoning.
C20_ScorerDeterministic ==
    (calc.op = "signal" /\ calc.first # NoSignal) => calc.out = calc.first

\* ---------------------------------------------------------------------
\* Consensus over timeframes (getOverallDecision of the indicators table).

TIMEFRAMES == <<"1m", "5m", "15m", "1h">>

\* A timeframe without an entry or without a signal: undefined, dropped by
\* filter(Boolean).
Missing == "missing"

\* What multiTimeframeData[symbol] can hold per timeframe.
TimeframeSignals == [{TIMEFRAMES[i] : i \in DOMAIN TIMEFRAMES} -> {Missing, "BUY", "SELL", "HOLD"}]

\* TIMEFRAMES.map(tf => ...signal?.signal).filter(Boolean)
PresentSignals(entry) ==
    SelectSeq([i \in DOMAIN TIMEFRAMES |-> entry[TIMEFRAMES[i]]], LAMBDA v : v # Missing)

CountOf(signals, value) == Len(SelectSeq(signals, LAMBDA v : v = value))

\* Variant: every timeframe counts, a missing one too.
TotalSignalsAll(signals) == Len(TIMEFRAMES)

TotalSignals(signals) == Len(signals)

\* Math.round(x) of the non-negative fraction num / den: halves go up.
Round(num, den) == (2 * num + den) \div (2 * den)

\* Variant: a tie for the top count still wins.
WinsOnTie(count, other, holdCount) == count >= other /\ count >= holdCount

\* buyCount > sellCount && buyCount > holdCount, and the same for SELL.
Wins(count, other, holdCount) == count > other /\ count > holdCount

NoDecision ==
    [signal |-> "HOLD", strength |-> 0, count |-> [buy |-> 0, sell |-> 0, hold |-> 0]]

\* getOverallDecision(symbol): hasEntry tells whether multiTimeframeData
\* has the symbol, entry is what it holds for it.
getOverallDecision(hasEntry, entry) ==
    LET signals      == PresentSignals(entry)
        buyCount     == CountOf(signals, "BUY")
        sellCount    == CountOf(signals, "SELL")
        holdCount    == CountOf(signals, "HOLD")
        totalSignals == TotalSignals(signals)
        count        == [buy |-> buyCount, sell |-> sellCount, hold |-> holdCount]
    IN  IF ~hasEntry THEN NoDecision
        ELSE IF Len(signals) = 0 THEN NoDecision
        ELSE IF Wins(buyCount, sellCount, holdCount)
             THEN [signal |-> "BUY", strength |-> Round(buyCount * 100, totalSignals),
                   count |-> count]
        ELSE IF Wins(sellCount, buyCount, holdCount)
             THEN [signal |-> "SELL", strength |-> Round(sellCount * 100, totalSignals),
                   count |-> count]
        ELSE [signal |-> "HOLD", strength |-> Round(holdCount * 100, totalSignals),
              count |-> count]

\* The table computes the overall decision of a symbol from the data it holds.
GetOverallDecision ==
    /\ calc = NoCalc
    /\ \E hasEntry \in BOOLEAN, entry \in TimeframeSignals :
          calc' = [op       |-> "overall",
                   hasEntry |-> hasEntry,
                   in       |-> entry,
                   out      |-> getOverallDecision(hasEntry, entry)]
    /\ UNCHANGED <<phase, env, token, login, logins, lateLogins, task, running,
                   storage, lastRead, rejected, caught, crashed, quotes>>

ConsensusNext == GetOverallDecision

ConsensusSpec == Init /\ [][ConsensusNext]_vars

\* Votes of the recorded call: the timeframes that carry the given signal.
Votes(value) == {i \in DOMAIN TIMEFRAMES : calc.in[TIMEFRAMES[i]] = value}

\* C21: when BUY or SELL has strictly more votes than each other category
\* among the timeframes present, it is the overall signal and the strength
\* is its share of the present signals as a rounded percentage; missing
\* timeframes are not counted.  {BUY, BUY, SELL, HOLD} gives BUY, 50.
C21_MajorityWins ==
    (calc.op = "overall" /\ calc.hasEntry) =>
        LET buy   == Cardinality(Votes("BUY"))
            sell  == Cardinality(Votes("SELL"))
            hold  == Cardinality(Votes("HOLD"))
            total == buy + sell + hold
            Share(c, strength) == /\ 2 * (100 * c - strength * total) <= total
                                  /\ 2 * (strength * total - 100 * c) <= total
        IN  /\ (buy > sell /\ buy > hold) =>
                  calc.out.signal = "BUY" /\ Share(buy, calc.out.strength)
            /\ (sell > buy /\ sell > hold) =>
                  calc.out.signal = "SELL" /\ Share(sell, calc.out.strength)
            /\ (buy = 2 /\ sell = 1 /\ hold = 1) => calc.out.strength = 50

\* BUY won two votes to one with one timeframe missing: strength 67.
C21_Witness ==
    /\ calc.op = "overall"
    /\ calc.hasEntry
    /\ Cardinality(Votes("BUY")) = 2
    /\ Cardinality(Votes("SELL")) = 1
    /\ Cardinality(Votes(Missing)) = 1
    /\ calc.out.signal = "BUY"
    /\ calc.out.strength = 67

\* C22: when no category has strictly more votes than each of the others,
\* or every present signal is HOLD, the overall signal is HOLD and the
\* strength is the HOLD votes' share of the present signals as a rounded
\* percentage.
C22_TieIsHold ==
    (calc.op = "overall" /\ calc.hasEntry) =>
        LET buy   == Cardinality(Votes("BUY"))
            sell  == Cardinality(Votes("SELL"))
            hold  == Cardinality(Votes("HOLD"))
            total == buy + sell + hold
            top   == Max(buy, Max(sell, hold))
            tie   == Cardinality({c \in {"BUY", "SELL", "HOLD"} :
                                    Cardinality(Votes(c)) = top}) > 1
        IN  (total > 0 /\ (tie \/ hold = total)) =>
                /\ calc.out.signal = "HOLD"
                /\ 2 * (100 * hold - calc.out.strength * total) <= total
                /\ 2 * (calc.out.strength * total - 100 * hold) <= total

\* BUY and SELL tie at the top with one HOLD among three present signals.
C22_Witness ==
    /\ calc.op = "overall"
    /\ calc.hasEntry
    /\ Cardinality(Votes("BUY")) = 1
    /\ Cardinality(Votes("SELL")) = 1
    /\ Cardinality(Votes("HOLD")) = 1
    /\ calc.out.signal = "HOLD"
    /\ calc.out.strength = 33

\* ---------------------------------------------------------------------
\* Indicator functions (calculateRSI, calculateEMA, calculateBollingerBands).
\*
\* A JavaScript number is a pair <<numerator, denominator>> in lowest terms
\* with a positive denominator; denominator 0 holds the values that are not
\* finite: <<1, 0>> Infinity, <<-1, 0>> -Infinity, <<0, 0>> NaN.  A result
\* whose magnitude passes MAX_VALUE becomes an infinity, as in IEEE 754;
\* rounding of finite results is not modelled.

\* Stand-in for Number.MAX_VALUE.
MAX_VALUE == 5000

RECURSIVE Gcd(_, _)
Gcd(a, b) == IF b = 0 THEN a ELSE Gcd(b, a % b)

Sign(n) == IF n > 0 THEN 1 ELSE IF n < 0 THEN -1 ELSE 0

Num(n) == <<n, 1>>

Infinity == <<1, 0>>

NotANumber == <<0, 0>>

IsFinite(x) == x[2] # 0

\* The number n / d (d # 0), reduced, or the infinity it overflows to.
Norm(n, d) ==
    LET g  == Gcd(Abs(n), Abs(d))
        n1 == (Sign(d) * n) \div g
        d1 == Abs(d) \div g
    IN  IF Abs(n1) > MAX_VALUE * d1 THEN <<Sign(n1), 0>> ELSE <<n1, d1>>

Neg(x) == <<-x[1], x[2]>>

Add(x, y) ==
    IF IsFinite(x) /\ IsFinite(y)
    THEN LET g == Gcd(x[2], y[2])
         IN  Norm(x[1] * (y[2] \div g) + y[1] * (x[2] \div g), (x[2] \div g) * y[2])
    ELSE IF IsFinite(x) THEN y
    ELSE IF IsFinite(y) THEN x
    ELSE IF x = y THEN x ELSE NotANumber

Sub(x, y) == Add(x, Neg(y))

Mul(x, y) ==
    IF IsFinite(x) /\ IsFinite(y)
    THEN LET g1 == Gcd(Abs(x[1]), y[2])
             g2 == Gcd(Abs(y[1]), x[2])
         IN  Norm((x[1] \div g1) * (y[1] \div g2), (x[2] \div g2) * (y[2] \div g1))
    ELSE <<Sign(x[1]) * Sign(y[1]), 0>>

\* 1 / x: 1 / 0 is Infinity, 1 / Infinity is 0.
Inv(x) ==
    IF x = NotANumber THEN NotANumber
    ELSE IF ~IsFinite(x) THEN Num(0)
    ELSE IF x[1] = 0 THEN Infinity
    ELSE <<Sign(x[1]) * x[2], Abs(x[1])>>

Div(x, y) == Mul(x, Inv(y))

\* x > 0 and x > y; every comparison with NaN is false.
IsPositive(x) == x[1] > 0

Greater(x, y) == IsPositive(Sub(x, y))

\* prices[i] with the code's index i (from 0); a read past the end gives
\* undefined, which arithmetic turns into NaN.
At(prices, i) == IF i + 1 \in DOMAIN prices THEN prices[i + 1] ELSE NotANumber

\* The first loop of calculateRSI: <<gains, losses>> over the changes
\* prices[i] - prices[i - 1], i = 1..period.
RECURSIVE SumChanges(_, _, _, _, _)
SumChanges(prices, i, period, gains, losses) ==
    IF i > period THEN <<gains, losses>>
    ELSE LET change == Sub(At(prices, i), At(prices, i - 1))
         IN  IF IsPositive(change)
             THEN SumChanges(prices, i + 1, period, Add(gains, change), losses)
             ELSE SumChanges(prices, i + 1, period, gains, Sub(losses, change))

\* The second loop: <<avgGain, avgLoss>> smoothed over the later changes.
RECURSIVE Smooth(_, _, _, _, _)
Smooth(prices, i, period, avgGain, avgLoss) ==
    IF i >= Len(prices) THEN <<avgGain, avgLoss>>
    ELSE LET change == Sub(At(prices, i), At(prices, i - 1))
             keep(avg) == Div(Mul(avg, Num(period - 1)), Num(period))
             move(avg, by) == Div(Add(Mul(avg, Num(period - 1)), by), Num(period))
         IN  IF IsPositive(change)
             THEN Smooth(prices, i + 1, period, move(avgGain, change), keep(avgLoss))
             ELSE Smooth(prices, i + 1, period, keep(avgGain), move(avgLoss, Neg(change)))

\* Variant: a series one price short of period + 1 is still computed.
TooShortOffByOne(prices, period) == Len(prices) < period

\* prices.length < period + 1
TooShort(prices, period) == Len(prices) < period + 1

calculateRSI(prices, period) ==
    IF TooShort(prices, period) THEN Num(50)
    ELSE LET sums == SumChanges(prices, 1, period, Num(0), Num(0))
             avgs == Smooth(prices, period + 1, period,
                            Div(sums[1], Num(period)), Div(sums[2], Num(period)))
         IN  IF avgs[2] = Num(0) THEN Num(100)
             ELSE Sub(Num(100), Div(Num(100), Add(Num(1), Div(avgs[1], avgs[2]))))

\* Price series handed to the indicator functions, described by length,
\* pattern and base price.
MaxRsiLength == 17

DefaultRsiPeriod == 14

RsiLengths == {0, 1, 14, 15, 16, MaxRsiLength}

\* A finite price above half of MAX_VALUE.
HugePrice == 4000

PricePatterns == {"flat", "rise", "fall", "zigzag", "saw", "swing"}

Bases == {-30, 0, 100}

PatternPrice(pattern, base, i) ==
    CASE pattern = "flat"   -> base
      [] pattern = "rise"   -> base + i
      [] pattern = "fall"   -> base - i
      [] pattern = "zigzag" -> base + (i % 2)
      [] pattern = "saw"    -> base + (i % 3)
      [] pattern = "swing"  -> IF i % 2 = 1 THEN 0 ELSE HugePrice

NumberSeries(shape) ==
    [i \in 1..shape.n |-> Num(PatternPrice(shape.pattern, shape.base, i))]

\* A call of calculateRSI with the default period.
CalculateRSI ==
    /\ calc = NoCalc
    /\ \E shape \in [n : RsiLengths, pattern : PricePatterns, base : Bases] :
          calc' = [op    |-> "rsi",
                   shape |-> shape,
                   out   |-> calculateRSI(NumberSeries(shape), DefaultRsiPeriod)]
    /\ UNCHANGED <<phase, env, token, login, logins, lateLogins, task, running,
                   storage, lastRead, rejected, caught, crashed, quotes>>

\* The loop of calculateEMA from index i on.
RECURSIVE EmaFrom(_, _, _, _)
EmaFrom(prices, i, multiplier, ema) ==
    IF i >= Len(prices) THEN ema
    ELSE EmaFrom(prices, i + 1, multiplier,
                 Add(Mul(Sub(At(prices, i), ema), multiplier), ema))

calculateEMA(prices, period) ==
    IF Len(prices) = 0 THEN Num(0)
    ELSE IF Len(prices) < period THEN At(prices, Len(prices) - 1)
    ELSE EmaFrom(prices, 1, Div(Num(2), Num(period + 1)), At(prices, 0))

MaxEmaLength == 3

EmaPrices == {1, 2, 4}

EmaSeries == UNION {[1..n -> {Num(v) : v \in EmaPrices}] : n \in 0..MaxEmaLength}

\* A call of calculateEMA.
CalculateEMA ==
    /\ calc = NoCalc
    /\ \E prices \in EmaSeries, period \in 1..(MaxEmaLength + 1) :
          calc' = [op     |-> "ema",
                   prices |-> prices,
                   period |-> period,
                   out    |-> calculateEMA(prices, period)]
    /\ UNCHANGED <<phase, env, token, login, logins, lateLogins, task, running,
                   storage, lastRead, rejected, caught, crashed, quotes>>

\* The largest r with r * r <= v.
Isqrt(v) == CHOOSE r \in 0..7100 : r * r <= v /\ v < (r + 1) * (r + 1)

\* Math.sqrt, rounded down to hundredths.
Sqrt(x) ==
    IF ~IsFinite(x) THEN (IF x = Infinity THEN Infinity ELSE NotANumber)
    ELSE IF x[1] < 0 THEN NotANumber
    ELSE Norm(Isqrt((x[1] \div x[2]) * 10000 + ((x[1] % x[2]) * 10000) \div x[2]), 100)

\* prices.slice(-period)
LastOf(prices, period) ==
    SubSeq(prices, Max(1, Len(prices) - period + 1), Len(prices))

RECURSIVE SumNumbers(_)
SumNumbers(values) ==
    IF values = <<>> THEN Num(0) ELSE Add(SumNumbers(SubSeq(values, 1, Len(values) - 1)),
                                          values[Len(values)])

\* prices[prices.length - 1] || 0: undefined, NaN and 0 give 0.
LastPriceOrZero(prices) ==
    IF At(prices, Len(prices) - 1) = NotANumber THEN Num(0)
    ELSE At(prices, Len(prices) - 1)

calculateBollingerBands(prices, period, multiplier) ==
    IF Len(prices) < period
    THEN [upper  |-> Mul(LastPriceOrZero(prices), <<51, 50>>),
          middle |-> LastPriceOrZero(prices),
          lower  |-> Mul(LastPriceOrZero(prices), <<49, 50>>)]
    ELSE LET last     == LastOf(prices, period)
             sma      == Div(SumNumbers(last), Num(period))
             variance == Div(SumNumbers([i \in DOMAIN last |->
                                           Mul(Sub(last[i], sma), Sub(last[i], sma))]),
                             Num(period))
             stdDev   == Sqrt(variance)
         IN  [upper  |-> Add(sma, Mul(stdDev, Num(multiplier))),
              middle |-> sma,
              lower  |-> Sub(sma, Mul(stdDev, Num(multiplier)))]

MaxBollingerLength == 21

DefaultBollingerPeriod == 20

DefaultBollingerMultiplier == 2

BollingerLengths == {0, 1, 2, 19, 20, MaxBollingerLength}

\* A call of calculateBollingerBands with the default period and multiplier.
CalculateBollingerBands ==
    /\ calc = NoCalc
    /\ \E shape \in [n : BollingerLengths, pattern : PricePatterns, base : Bases] :
          calc' = [op    |-> "bollinger",
                   shape |-> shape,
                   out   |-> calculateBollingerBands(NumberSeries(shape),
                                DefaultBollingerPeriod, DefaultBollingerMultiplier)]
    /\ UNCHANGED <<phase, env, token, login, logins, lateLogins, task, running,
                   storage, lastRead, rejected, caught, crashed, quotes>>

IndicatorNext ==
    \/ CalculateRSI
    \/ CalculateEMA
    \/ CalculateBollingerBands

IndicatorSpec == Init /\ [][IndicatorNext]_vars

\* C23: for every series shorter than 15 prices, the empty one included,
\* calculateRSI with the default period 14 returns exactly 50.
C23_ShortSeriesRsi50 ==
    (calc.op = "rsi" /\ calc.shape.n < 15) => calc.out = Num(50)

\* A rising series of 14 prices, one short of what the RSI needs, gave 50.
C23_Witness ==
    /\ calc.op = "rsi"
    /\ calc.shape.n = 14
    /\ calc.shape.pattern = "rise"
    /\ calc.out = Num(50)

\* C24: for every series of finite prices calculateRSI returns a number
\* from 0 to 100.
C24_RsiInRange ==
    calc.op = "rsi" =>
        /\ IsFinite(calc.out)
        /\ calc.out[1] >= 0
        /\ calc.out[1] <= 100 * calc.out[2]

\* C25: for every non-empty series and every period greater than or equal
\* to its length, calculateEMA returns the last element of the series.
C25_EmaShortSeriesLast ==
    (calc.op = "ema" /\ Len(calc.prices) > 0 /\ calc.period >= Len(calc.prices))
        => calc.out = calc.prices[Len(calc.prices)]

\* C26: for every strictly increasing series, of any length (at least one
\* price) and any sign of prices, calculateBollingerBands returns
\* upper > middle > lower.
C26_BandsOrdered ==
    (calc.op = "bollinger" /\ calc.shape.pattern = "rise" /\ calc.shape.n >= 1) =>
        /\ Greater(calc.out.upper, calc.out.middle)
        /\ Greater(calc.out.middle, calc.out.lower)

\* ---------------------------------------------------------------------
\* Quote repository (MemStorage) and the series the analysis reads from it.
\* The marketData map is the sequence quotes, in insertion order.

MaxStored == 2

\* insertData.timestamp that is not given.
NoTimestamp == 0

\* Variant: the map is keyed by symbol, a save replaces the symbol's record.
MapSetBySymbol(store, id, data) ==
    IF \E i \in DOMAIN store : store[i].symbol = data.symbol
    THEN [i \in DOMAIN store |-> IF store[i].symbol = data.symbol THEN data ELSE store[i]]
    ELSE Append(store, data)

\* Map.set(id, data): a new key is added at the end, a known key keeps its
\* place and gets the new value.
MapSet(store, id, data) ==
    IF \E i \in DOMAIN store : store[i].id = id
    THEN [i \in DOMAIN store |-> IF store[i].id = id THEN data ELSE store[i]]
    ELSE Append(store, data)

\* MemStorage.saveMarketData; id is what randomUUID() returned.
saveMarketData(store, insertData, id, now) ==
    MapSet(store, id,
           [id     |-> id,
            symbol |-> insertData.symbol,
            price  |-> insertData.price,
            open   |-> insertData.open,
            ts     |-> IF insertData.ts = NoTimestamp THEN now ELSE insertData.ts])

\* Array.prototype.sort with (a, b) => b.timestamp - a.timestamp: newest
\* first, records of equal timestamp in their earlier order.  place[i] is
\* the index the i-th record gets.
SortNewestFirst(data) ==
    LET place == [i \in DOMAIN data |->
                    1 + Cardinality({j \in DOMAIN data :
                                        \/ data[j].ts > data[i].ts
                                        \/ data[j].ts = data[i].ts /\ j < i})]
    IN  [p \in DOMAIN data |-> data[CHOOSE i \in DOMAIN data : place[i] = p]]

\* MemStorage.getMarketData(symbol?)
getMarketData(store, symbol) ==
    IF symbol # Absent
    THEN SortNewestFirst(SelectSeq(store, LAMBDA item : item.symbol = symbol))
    ELSE SortNewestFirst(store)

\* A fresh identifier: randomUUID() does not repeat a key of the map.
FreshIds(store) == (1..(Len(store) + 2)) \ {store[i].id : i \in DOMAIN store}

\* Records a caller hands to saveMarketData one at a time.
InsertRecords ==
    [symbol : {"NIFTY", "SENSEX"}, price : {"100"}, open : {Absent, "100"},
     ts : {NoTimestamp, 1, 2}]

\* One call of saveMarketData.
StoreSave ==
    /\ Len(quotes) < MaxStored
    /\ \E insertData \in InsertRecords, id \in FreshIds(quotes) :
          quotes' = saveMarketData(quotes, insertData, id, Now(quotes))
    /\ UNCHANGED <<phase, env, token, login, logins, lateLogins, task, running,
                   storage, lastRead, rejected, caught, crashed, calc>>

\* The save loop over a whole series: every identifier is new, so each
\* save puts its record at the end of the map.
SaveSeries(store, series) ==
    store \o [i \in DOMAIN series |->
                 saveMarketData(<<>>,
                                [symbol |-> series[i].symbol, price |-> series[i].price,
                                 open |-> Absent, ts |-> series[i].ts + 1],
                                Len(store) + i, Len(store) + i)[1]]

\* Series long enough for the gate's first test.
StoredShapes == {shape \in SeriesShapes : shape.n >= MinPoints}

\* A history of one symbol is saved, oldest record first.
StoreSeries ==
    /\ quotes = <<>>
    /\ \E shape \in StoredShapes : quotes' = SaveSeries(quotes, Series("NIFTY", shape))
    /\ UNCHANGED <<phase, env, token, login, logins, lateLogins, task, running,
                   storage, lastRead, rejected, caught, crashed, calc>>

\* A call of getMarketData, for one symbol or for all.
StoreRead ==
    /\ \E symbol \in {Absent, "NIFTY"} :
          calc' = [op |-> "read", symbol |-> symbol, result |-> getMarketData(quotes, symbol)]
    /\ UNCHANGED <<phase, env, token, login, logins, lateLogins, task, running,
                   storage, lastRead, rejected, caught, crashed, quotes>>

\* What analyzeTechnicals hands to the indicator functions for a symbol:
\* prices = symbolData.map(d => parseFloat(d.price)), with each record's
\* timestamp kept beside its price.
PassedSeries(marketData, symbol) ==
    [i \in DOMAIN SymbolData(marketData, symbol) |->
        [price |-> ParseFloat(SymbolData(marketData, symbol)[i].price),
         ts    |-> SymbolData(marketData, symbol)[i].ts]]

\* The end of a poll cycle or of a request handler: the repository is read
\* and the records go to analyzeTechnicals as they are.
StoreAnalyze ==
    /\ LET marketData == getMarketData(quotes, Absent)
       IN  calc' = [op     |-> "analyze",
                    passed |-> [symbol \in analyzeTechnicals(marketData) |->
                                   PassedSeries(marketData, symbol)]]
    /\ UNCHANGED <<phase, env, token, login, logins, lateLogins, task, running,
                   storage, lastRead, rejected, caught, crashed, quotes>>

StorageNext ==
    \/ StoreSave
    \/ StoreSeries
    \/ StoreRead
    \/ StoreAnalyze

StorageSpec == Init /\ [][StorageNext]_vars

\* C27: the repository is append-only.  Every step keeps each stored record
\* as it is, a save adds its record under an identifier no other record
\* has, and a read of the whole repository returns every stored record.
C27_AppendOnly ==
    [][/\ \A i \in DOMAIN quotes : i \in DOMAIN quotes' /\ quotes'[i] = quotes[i]
       /\ \A i, j \in DOMAIN quotes' : i # j => quotes'[i].id # quotes'[j].id
       /\ (calc' # calc /\ calc'.op = "read" /\ calc'.symbol = Absent) =>
              /\ Len(calc'.result) = Len(quotes')
              /\ \A i \in DOMAIN quotes' :
                    \E k \in DOMAIN calc'.result : calc'.result[k] = quotes'[i]]_vars

\* Two records of one symbol are stored, the later one saved with the
\* earlier timestamp, and a read of the repository returned both.
C27_Witness ==
    /\ calc.op = "read"
    /\ calc.symbol = Absent
    /\ Len(quotes) = 2
    /\ quotes[1].symbol = quotes[2].symbol
    /\ quotes[2].ts < quotes[1].ts
    /\ Len(calc.result) = 2

\* C28: the series handed to the indicator functions is ordered oldest to
\* newest, whatever the order of saving and of reading.
C28_OldestFirst ==
    calc.op = "analyze" =>
        \A symbol \in DOMAIN calc.passed :
            \A i, j \in DOMAIN calc.passed[symbol] :
                i < j => calc.passed[symbol][i].ts <= calc.passed[symbol][j].ts

\* C29: every price handed to the indicator functions is a finite number
\* above zero.
C29_OnlyValidPrices ==
    calc.op = "analyze" =>
        \A symbol \in DOMAIN calc.passed :
            \A i \in DOMAIN calc.passed[symbol] :
                /\ calc.passed[symbol][i].price # NaN
                /\ calc.passed[symbol][i].price > 0

\* ---------------------------------------------------------------------
\* Historical fetch (getHistoricalData and its three adapters).
\* A list of records is a sequence of runs [symbol, origin, rows]: rows
\* records of one symbol that came from one place.

\* rawData.length > 20
MinHistoricalRecords == 20

DefaultDays == 100

\* Daily rows in a provider response that has data.
ResponseRows == 30

RECURSIVE Rows(_)
Rows(records) ==
    IF records = <<>> THEN 0 ELSE records[1].rows + Rows(Tail(records))

RECURSIVE Concat(_)
Concat(lists) ==
    IF lists = <<>> THEN <<>> ELSE Head(lists) \o Concat(Tail(lists))

\* generateRealisticHistoricalData(symbol, days): one record per day from
\* `days` ago to today, made from Math.random().
generateRealisticHistoricalData(symbol, days) ==
    <<[symbol |-> symbol, origin |-> "generated", rows |-> days + 1]>>

\* What a provider did with the request for one symbol: "fail" is a network
\* error or a status that is not ok, a number is the rows of its response.
Replies == {"fail", "empty", "rows"}

ParsedFrom(symbol, origin, reply) ==
    IF reply = "rows"
    THEN <<[symbol |-> symbol, origin |-> origin, rows |-> ResponseRows]>>
    ELSE <<>>

getYahooHistoricalData(symbols, days, reply) ==
    Concat([i \in DOMAIN symbols |->
        IF ~IsAllowed(symbols[i]) THEN <<>>
        ELSE IF reply[i] = "fail" THEN generateRealisticHistoricalData(symbols[i], days)
        ELSE IF ParsedFrom(symbols[i], "Yahoo Historical", reply[i]) = <<>>
             THEN generateRealisticHistoricalData(symbols[i], days)
        ELSE ParsedFrom(symbols[i], "Yahoo Historical", reply[i])])

\* getAlphaVantageHistoricalData and getTwelveDataHistoricalData: a failed
\* request is caught and adds nothing.
getOtherHistoricalData(symbols, origin, reply) ==
    Concat([i \in DOMAIN symbols |->
        IF ~IsAllowed(symbols[i]) THEN <<>>
        ELSE ParsedFrom(symbols[i], origin, reply[i])])

\* getHistoricalData: the first source with more than 20 records wins; the
\* enricher keeps every record and touches only its open.
getHistoricalData(symbols, days, replies) ==
    LET yahoo  == getYahooHistoricalData(symbols, days, [i \in DOMAIN symbols |-> replies[i].yahoo])
        alpha  == getOtherHistoricalData(symbols, "Alpha Vantage Historical",
                                         [i \in DOMAIN symbols |-> replies[i].alpha])
        twelve == getOtherHistoricalData(symbols, "Twelve Data Historical",
                                         [i \in DOMAIN symbols |-> replies[i].twelve])
    IN  IF Rows(yahoo) > MinHistoricalRecords THEN yahoo
        ELSE IF Rows(alpha) > MinHistoricalRecords THEN alpha
        ELSE IF Rows(twelve) > MinHistoricalRecords THEN twelve
        ELSE <<>>

HistoricalSymbols == {<<"T", "C", "S">>, <<"t", "c", "s">>}

HistoricalLists == UNION {[1..n -> HistoricalSymbols] : n \in 0..MaxSymbols}

\* A call of getHistoricalData.
GetHistoricalData ==
    /\ calc = NoCalc
    /\ \E symbols \in HistoricalLists, days \in {5, DefaultDays} :
       \E replies \in [DOMAIN symbols -> [yahoo : Replies, alpha : {"fail", "rows"},
                                           twelve : {"fail", "rows"}]] :
          calc' = [op      |-> "historical",
                   symbols |-> symbols,
                   days    |-> days,
                   replies |-> replies,
                   result  |-> getHistoricalData(symbols, days, replies)]
    /\ UNCHANGED <<phase, env, token, login, logins, lateLogins, task, running,
                   storage, lastRead, rejected, caught, crashed, quotes>>

HistoricalNext == GetHistoricalData

HistoricalSpec == Init /\ [][HistoricalNext]_vars

\* C30: when every request of every historical provider fails for every
\* symbol, getHistoricalData returns the empty list, and every record it
\* returns was parsed from a provider's response.
C30_HistoricalFailover ==
    calc.op = "historical" =>
        /\ (\A i \in DOMAIN calc.symbols :
                /\ calc.replies[i].yahoo = "fail"
                /\ calc.replies[i].alpha = "fail"
                /\ calc.replies[i].twelve = "fail")
              => calc.result = <<>>
        /\ \A k \in DOMAIN calc.result : calc.result[k].origin # "generated"

====
